---- MODULE Spec2Model ----
(***************************************************************************)
(* uefi-ntfs chain loader (boot.c): efi_main, DisconnectBlockingDrivers    *)
(* and UnloadDriver as a state machine.  One action per platform call (or  *)
(* per straight-line block between two platform calls); the outcome of     *)
(* every platform call is chosen nondeterministically from a small set of  *)
(* EFI statuses.  The build flavour (_DEBUG or not) is fixed by Init; the   *)
(* disk handles of the platform (device path and content of block 0 of     *)
(* each) are drawn as the selection loop reaches them.                     *)
(***************************************************************************)
EXTENDS Integers, Sequences, FiniteSets, TLC

VARIABLES
  debug,              \* build flavour: TRUE when compiled with _DEBUG
  disk,               \* the DiskIo handles the loop has reached, in enumeration order
  pc,                 \* position in efi_main / its callees
  Status,             \* efi_main's Status
  SecureBootStatus,   \* efi_main's SecureBootStatus
  mem,                \* pool: pointer states, live allocations, faults
  dbd,                \* locals of DisconnectBlockingDrivers
  BootPartitionPath,  \* efi_main's BootPartitionPath (borrowed)
  BootDiskPath,       \* efi_main's BootDiskPath (owned)
  HandleCount,        \* efi_main's HandleCount
  Index,              \* efi_main's Index
  FsType,             \* efi_main's FsType
  examined,           \* per examined handle: what the selection loop saw
  un,                 \* locals of UnloadDriver
  Try,                \* efi_main's Try
  openSt,             \* status returned by the latest volume open attempt
  image,              \* the loaded next-stage image (LoadedImage) while inspected
  WindowsBootMgr,     \* efi_main's WindowsBootMgr
  calls,              \* platform operations efi_main's stages invoked, in order
  loadSt,             \* status returned by the latest LoadImage call
  ImageCodeType,      \* LoadedImage->ImageCodeType of the companion driver
  listSt,             \* status returned by efi_main's LocateHandleBuffer call
  testSt,             \* status returned by the file system TEST_PROTOCOL open
  unloadSt,           \* status returned by the latest UnloadImage call
  diag,               \* error diagnostics printed, in order
  keyWait,            \* TRUE once the "press any key" wait was entered
  returned            \* the status efi_main returned ("none" while running)

vars == << debug, disk, pc, Status, SecureBootStatus, mem, dbd, BootPartitionPath,
           BootDiskPath, HandleCount, Index, FsType, examined, un, Try,
           openSt, image, WindowsBootMgr, calls, loadSt, ImageCodeType, listSt, testSt, unloadSt,
           diag, keyWait, returned >>

-----------------------------------------------------------------------------
(* Bounds of the model *)

\* most disk handles the platform enumerates
MaxHandles == 2

\* most entries of an open-information list
MaxOpeners == 1

\* bytes of block 0 that are represented (the media's BlockSize)
BlockSize == 12

\* width of UINTN in bits, scaled down from 64 (or 32)
UintnBits == 12

-----------------------------------------------------------------------------
(* EFI status codes *)

ErrorStatuses ==
  { "LoadError", "InvalidParameter", "Unsupported", "BufferTooSmall", "DeviceError",
    "OutOfResources", "NotFound", "AccessDenied", "NoMapping", "SecurityViolation",
    "Aborted" }

\* EFI_ERROR(): the error statuses are those with the high bit set
EFI_ERROR(st) == st \in ErrorStatuses

-----------------------------------------------------------------------------
(* Device paths: a sequence of nodes, the end node left implicit *)

\* CompareMem over two byte sequences of length n: 0 when equal, else the
\* difference of the first bytes that differ
RECURSIVE CompareMemFrom(_, _, _, _)
CompareMemFrom(a, b, i, n) ==
  IF i > n THEN 0
  ELSE IF a[i] # b[i] THEN a[i] - b[i]
  ELSE CompareMemFrom(a, b, i + 1, n)

CompareMem(a, b, n) == CompareMemFrom(a, b, 1, n)

\* node-by-node structural comparison; 0 when both paths have the same nodes
RECURSIVE CompareDevicePaths(_, _)
CompareDevicePaths(dp1, dp2) ==
  IF dp1 = << >> /\ dp2 = << >> THEN 0
  ELSE IF dp1 = << >> THEN 0 - Head(dp2)
  ELSE IF dp2 = << >> THEN Head(dp1)
  ELSE IF Head(dp1) # Head(dp2) THEN Head(dp1) - Head(dp2)
  ELSE CompareDevicePaths(Tail(dp1), Tail(dp2))

\* a copy of the path with its last node truncated
GetParentDevice(dp) == IF dp = << >> THEN << >> ELSE SubSeq(dp, 1, Len(dp) - 1)

\* the device path of the partition the loader was started from
BootDevicePath == << 1, 1 >>

-----------------------------------------------------------------------------
(* Block 0 of a partition and the signature table *)

FsMagic == << << 78, 84, 70, 83, 32, 32, 32, 32 >>,
              << 69, 88, 70, 65, 84, 32, 32, 32 >> >>

FsName == << "NTFS", "exFAT" >>

DriverName == << "ntfs", "exfat" >>

\* ARRAY_SIZE(FsName)
NumFs == Len(FsName)

\* sizeof(FsMagic[FsType])
MagicSize == Len(FsMagic[1])

\* offset of the OEM ID in block 0: &Buffer[3]
MagicOffset == 3

\* a block with `magic` laid at byte offset `at` and `fill` everywhere else
BlockWith(magic, at, fill) ==
  [i \in 1..BlockSize |->
     IF i - 1 >= at /\ i - 1 < at + Len(magic) THEN magic[i - at] ELSE fill]

\* boot sectors: NTFS, exFAT, FAT ("MSDOS5.0"), and near misses: the NTFS magic
\* at offset 0, "NTFS" padded with NULs, "EXFAT" with a NUL as eighth byte
NtfsBlock == BlockWith(FsMagic[1], 3, 235)
NtfsBlock0 == BlockWith(FsMagic[1], 3, 0)
ExfatBlock == BlockWith(FsMagic[2], 3, 235)
FatBlock == BlockWith(<< 77, 83, 68, 79, 83, 53, 46, 48 >>, 3, 235)
ShiftedBlock == BlockWith(FsMagic[1], 0, 32)
NulPadBlock == BlockWith(<< 78, 84, 70, 83, 0, 0, 0, 0 >>, 3, 235)
ShortPadBlock == BlockWith(<< 69, 88, 70, 65, 84, 32, 32, 0 >>, 3, 235)

\* what a buffer may hold when ReadBlocks failed (AllocatePool does not clear it)
Blocks ==
  { NtfsBlock, NtfsBlock0, ExfatBlock, FatBlock, ShiftedBlock, NulPadBlock,
    ShortPadBlock }

\* the DiskIo handles the platform may expose, each with its device path and
\* its block 0: the boot partition (here with an NTFS signature of its own),
\* partitions of the boot disk, a partition of another disk
Partitions ==
  { [path |-> << 1, 1 >>, block |-> NtfsBlock],
    [path |-> << 1, 2 >>, block |-> NtfsBlock],
    [path |-> << 1, 2 >>, block |-> ExfatBlock],
    [path |-> << 1, 2 >>, block |-> ShortPadBlock],
    [path |-> << 2, 1 >>, block |-> NtfsBlock0] }

\* a variant that takes the 8 bytes at &Buffer[0]
WindowAtStart(buf) == [i \in 1..Len(FsMagic[1]) |-> buf[i]]

\* the 8 bytes at &Buffer[3]
Window(buf) == [i \in 1..MagicSize |-> buf[MagicOffset + i]]

\* for (FsType = 0; FsType < ARRAY_SIZE(FsName) && CompareMem(...) != 0; FsType++);
\* FsType counts from 0 as in the source
RECURSIVE FsTypeScan(_, _)
FsTypeScan(buf, t) ==
  IF t < NumFs /\ CompareMem(Window(buf), FsMagic[t + 1], MagicSize) # 0
  THEN FsTypeScan(buf, t + 1)
  ELSE t

Classify(buf) == FsTypeScan(buf, 0)

-----------------------------------------------------------------------------
(* The pool: every pointer variable of the program that may hold pool memory *)

Pointers ==
  { "ParentDevicePath", "BootDiskPath", "Handles", "DevicePath", "DevicePathString",
    "Buffer", "VolumeInfo", "DBD.Handles", "DBD.DevicePathString", "DBD.OpenInfo",
    "UnloadDriver.OpenInfo" }

\* ptr[p]: "NULL" (also: not set yet), "owned" (pool memory the program has to
\* release), "borrowed" (memory of the platform), "freed" (dangling);
\* live: the pointers whose allocation is not released yet;
\* fault: double releases, releases of borrowed memory, overwritten allocations
MemInit == [ptr |-> [p \in Pointers |-> "NULL"], live |-> {}, fault |-> {}]

\* p = <pool memory allocated by the program or handed over by the platform>
Alloc(m, p) ==
  [m EXCEPT !.ptr[p] = "owned",
            !.live = @ \cup {p},
            !.fault = IF p \in m.live THEN @ \cup {<< "lost", p >>} ELSE @]

\* p = <a pointer into memory of the platform>, e.g. DevicePathFromHandle()
Borrow(m, p) ==
  [m EXCEPT !.ptr[p] = "borrowed",
            !.fault = IF p \in m.live THEN @ \cup {<< "lost", p >>} ELSE @]

\* FreePool(p)
FreePool(m, p) ==
  CASE m.ptr[p] = "owned" -> [m EXCEPT !.ptr[p] = "freed", !.live = @ \ {p}]
    [] m.ptr[p] = "freed" -> [m EXCEPT !.fault = @ \cup {<< "double", p >>}]
    [] m.ptr[p] = "borrowed" -> [m EXCEPT !.fault = @ \cup {<< "borrowed", p >>}]
    [] OTHER -> m

\* SafeFree(p): if (p != NULL) { FreePool(p); p = NULL; }
SafeFree(m, p) ==
  IF m.ptr[p] # "NULL" THEN [FreePool(m, p) EXCEPT !.ptr[p] = "NULL"] ELSE m

\* an allocation made and released by SafeFree within one step (a printed path)
AllocThenSafeFree(m, p) == SafeFree(Alloc(m, p), p)

\* the pointers ps are not used any more (the function that declares them
\* returns, or no later line reads them): what they point to stays as it is
Dead(m, ps) == [m EXCEPT !.ptr = [p \in Pointers |-> IF p \in ps THEN "NULL" ELSE @[p]]]

-----------------------------------------------------------------------------
(* Initial state: the state on entry of efi_main *)

DbdInit == [Index |-> 0, HandleCount |-> 0, OpenInfoIndex |-> 0, OpenInfoCount |-> 0,
            logical |-> FALSE, hasFs |-> FALSE, byDriver |-> FALSE,
            disconnect |-> "none"]

UnInit == [i |-> 0, OpenInfoCount |-> 0, log |-> << >>]

NoImage == [size |-> 0, marker |-> -1, term |-> 0]

Init ==
  /\ debug \in BOOLEAN
  /\ disk = << >>
  /\ pc = "start"
  /\ Status = "Success"
  /\ SecureBootStatus = 0
  /\ mem = MemInit
  /\ dbd = DbdInit
  /\ BootPartitionPath = << >>
  /\ BootDiskPath = << >>
  /\ HandleCount = 0
  /\ Index = 0
  /\ FsType = 0
  /\ examined = << >>
  /\ un = UnInit
  /\ Try = 0
  /\ openSt = "none"
  /\ image = NoImage
  /\ WindowsBootMgr = FALSE
  /\ calls = << >>
  /\ loadSt = "none"
  /\ ImageCodeType = "none"
  /\ listSt = "none"
  /\ testSt = "none"
  /\ unloadSt = "none"
  /\ diag = << >>
  /\ keyWait = FALSE
  /\ returned = "none"

-----------------------------------------------------------------------------
(* efi_main, lines 542-556: cleanup, key wait, return *)

\* lines 543-545
Cleanup(m) ==
  SafeFree(SafeFree(SafeFree(m, "ParentDevicePath"), "BootDiskPath"), "Handles")

\* a variant of line 548 that waits whatever the status
WaitsAlways(st) == st = st

\* line 548: the key wait is entered
WaitsForKey(st) == EFI_ERROR(st)

\* control reaches `out` with Status = st, pool m, after printing msgs: cleanup,
\* the key wait on error, return Status
Exit(st, msgs, m) ==
  /\ Status' = st
  /\ diag' = diag \o msgs
  /\ mem' = Cleanup(m)
  /\ keyWait' = WaitsForKey(st)
  /\ returned' = st
  /\ pc' = "done"

\* control goes on to `next` with Status = st and pool m
Goto(next, st, m) ==
  /\ Status' = st
  /\ mem' = m
  /\ pc' = next
  /\ UNCHANGED << diag, keyWait, returned >>

-----------------------------------------------------------------------------
(* efi_main, lines 266-291 *)

\* the values GetSecureBootStatus() reports: Setup mode, Disabled, Enabled
SecureBootStates == { -1, 0, 1 }

\* SecureBootStatus = GetSecureBootStatus()
ReadSecureBoot ==
  /\ pc = "start"
  /\ \E sb \in SecureBootStates : SecureBootStatus' = sb
  /\ pc' = "openLoadedImage"
  /\ UNCHANGED << debug, listSt, ImageCodeType, testSt, unloadSt, disk, Status, mem,
                  dbd, BootPartitionPath, BootDiskPath, HandleCount, Index, FsType,
                  examined, un, Try, openSt, image, WindowsBootMgr, calls, loadSt, diag,
                  keyWait, returned >>

\* lines 286-291: OpenProtocol(MainImageHandle, LoadedImage)
OpenLoadedImage ==
  /\ pc = "openLoadedImage"
  /\ \E st \in { "Success", "Unsupported" } :
       IF EFI_ERROR(st)
       THEN Exit(st, << "Unable to access boot image interface" >>, mem)
       ELSE Goto("dbdLocate", st, mem)
  /\ UNCHANGED << debug, listSt, ImageCodeType, testSt, unloadSt, disk,
                  SecureBootStatus, dbd, BootPartitionPath, BootDiskPath, HandleCount,
                  Index, FsType, examined, un, Try, openSt, image, WindowsBootMgr,
                  calls, loadSt >>

-----------------------------------------------------------------------------
(* DisconnectBlockingDrivers, lines 85-146 *)

DbdLocals == { "DBD.Handles", "DBD.DevicePathString", "DBD.OpenInfo" }

\* lines 95-97: LocateHandleBuffer(ByProtocol, DiskIo) returns n handles
DbdLocate ==
  /\ pc = "dbdLocate"
  /\ \E st \in { "Success", "NotFound" }, n \in 0..MaxHandles :
       /\ EFI_ERROR(st) => n = 0
       /\ IF EFI_ERROR(st) \/ n = 0
          THEN /\ pc' = "bootPaths"
               /\ UNCHANGED << mem, dbd >>
          ELSE /\ pc' = "dbdHandle"
               /\ mem' = Alloc(mem, "DBD.Handles")
               /\ dbd' = [DbdInit EXCEPT !.HandleCount = n]
  /\ UNCHANGED << debug, listSt, ImageCodeType, testSt, unloadSt, disk, Status,
                  SecureBootStatus, BootPartitionPath, BootDiskPath, HandleCount, Index,
                  FsType, examined, un, Try, openSt, image, WindowsBootMgr, calls,
                  loadSt, diag, keyWait, returned >>

\* what the platform reports of one handle: whether BlockIo opens, whether its
\* media is a logical partition, whether it exposes a file system, whether the
\* open-information list is returned and how many entries it has
HandleReports ==
  [blockIo : BOOLEAN, logical : BOOLEAN, fs : BOOLEAN, info : BOOLEAN,
   count : 0..MaxOpeners]

\* a variant of lines 108-117 that skips only the handles without BlockIo
DbdSkipsWithoutBlockIo(r) == ~r.blockIo

\* lines 108-117: the handle is skipped: no BlockIo, no media or not a
\* partition, or a file system is produced on it
DbdSkips(r) == ~r.blockIo \/ ~r.logical \/ r.fs

\* lines 100-128 for Handles[Index]; lines 145-146 once the loop has ended
DbdHandle ==
  /\ pc = "dbdHandle"
  /\ IF dbd.Index >= dbd.HandleCount
     THEN /\ mem' = Dead(FreePool(mem, "DBD.Handles"), DbdLocals)
          /\ dbd' = DbdInit
          /\ pc' = "bootPaths"
     ELSE \E r \in HandleReports :
            \* reports that differ only in what the code does not read are one
            /\ ~r.blockIo => (~r.logical /\ ~r.fs)
            /\ DbdSkips(r) => ~r.info
            /\ ~r.info => r.count = 0
            /\ IF DbdSkips(r)
               THEN /\ dbd' = [dbd EXCEPT !.Index = @ + 1]
                    /\ mem' = mem
                    /\ pc' = "dbdHandle"
               ELSE IF ~r.info
               THEN /\ dbd' = [dbd EXCEPT !.Index = @ + 1]
                    /\ mem' = FreePool(Alloc(mem, "DBD.DevicePathString"),
                                       "DBD.DevicePathString")
                    /\ pc' = "dbdHandle"
               ELSE /\ dbd' = [dbd EXCEPT !.OpenInfoIndex = 0,
                                          !.OpenInfoCount = r.count,
                                          !.logical = r.logical, !.hasFs = r.fs]
                    /\ mem' = Alloc(Alloc(mem, "DBD.DevicePathString"), "DBD.OpenInfo")
                    /\ pc' = "dbdOpener"
  /\ UNCHANGED << debug, listSt, ImageCodeType, testSt, unloadSt, disk, Status,
                  SecureBootStatus, BootPartitionPath, BootDiskPath, HandleCount, Index,
                  FsType, examined, un, Try, openSt, image, WindowsBootMgr, calls,
                  loadSt, diag, keyWait, returned >>

\* lines 130-143: one entry of the open-information list (by: it is a BY_DRIVER
\* open; ok: DisconnectController succeeded), or the end of the list
DbdOpener ==
  /\ pc = "dbdOpener"
  /\ IF dbd.OpenInfoIndex >= dbd.OpenInfoCount
     THEN /\ mem' = FreePool(FreePool(mem, "DBD.DevicePathString"), "DBD.OpenInfo")
          /\ dbd' = [dbd EXCEPT !.Index = @ + 1, !.OpenInfoIndex = 0,
                                !.OpenInfoCount = 0, !.logical = FALSE,
                                !.hasFs = FALSE, !.byDriver = FALSE,
                                !.disconnect = "none"]
          /\ pc' = "dbdHandle"
     ELSE \E by \in BOOLEAN, ok \in BOOLEAN :
            /\ ~by => ok
            /\ dbd' = [dbd EXCEPT !.OpenInfoIndex = @ + 1,
                                  !.byDriver = by,
                                  !.disconnect = IF ~by THEN "none"
                                                 ELSE IF ok THEN "done"
                                                 ELSE "failed"]
            /\ mem' = mem
            /\ pc' = "dbdOpener"
  /\ UNCHANGED << debug, listSt, ImageCodeType, testSt, unloadSt, disk, Status,
                  SecureBootStatus, BootPartitionPath, BootDiskPath, HandleCount, Index,
                  FsType, examined, un, Try, openSt, image, WindowsBootMgr, calls,
                  loadSt, diag, keyWait, returned >>

-----------------------------------------------------------------------------
(* efi_main, lines 296-358: boot paths, enumeration, target selection *)

\* DevicePathFromHandle(h) of a handle h
DevicePathFromHandle(h) == h.path

\* lines 297-303: BootPartitionPath, BootDiskPath and the printed disk path
BootPaths ==
  /\ pc = "bootPaths"
  /\ BootPartitionPath' = BootDevicePath
  /\ BootDiskPath' = GetParentDevice(BootDevicePath)
  /\ mem' = AllocThenSafeFree(Alloc(mem, "BootDiskPath"), "DevicePathString")
  /\ pc' = "locate"
  /\ UNCHANGED << debug, listSt, ImageCodeType, testSt, unloadSt, disk, Status,
                  SecureBootStatus, dbd, HandleCount, Index, FsType, examined, un, Try,
                  openSt, image, WindowsBootMgr, calls, loadSt, diag, keyWait, returned
                  >>

\* a variant of lines 307-310 that ends the run with NotFound
ListFailureNotFound(st) == "NotFound"

\* lines 307-310: the status the run ends with when the enumeration failed with st
ListFailureStatus(st) == st

\* lines 305-310: LocateHandleBuffer(ByProtocol, DiskIo) returns n handles
LocateHandles ==
  /\ pc = "locate"
  /\ \E st \in { "Success", "NotFound", "OutOfResources" }, n \in 0..MaxHandles :
       /\ EFI_ERROR(st) => n = 0
       /\ listSt' = st
       /\ IF EFI_ERROR(st)
          THEN /\ Exit(ListFailureStatus(st), << "Failed to list disks" >>, mem)
               /\ UNCHANGED << HandleCount, Index >>
          ELSE /\ Goto("select", st, IF n > 0 THEN Alloc(mem, "Handles") ELSE mem)
               /\ HandleCount' = n
               /\ Index' = 0
  /\ UNCHANGED << debug, ImageCodeType, testSt, unloadSt, disk, SecureBootStatus, dbd,
                  BootPartitionPath, BootDiskPath, FsType, examined, un, Try, openSt,
                  image, WindowsBootMgr, calls, loadSt >>

\* a variant of line 318 that compares the handle's parent with the boot partition
IsBootPartitionParent(dp, boot) == CompareDevicePaths(GetParentDevice(dp), boot) = 0

\* a variant of line 322 with the comparison inverted
OtherDeviceOf(bootDisk, parent) == CompareDevicePaths(bootDisk, parent) # 0

\* a variant of lines 326-331 with the build condition inverted
SkipOtherDeviceInDebug(dbg, same) == dbg /\ ~same

\* line 318: the handle is the partition the loader booted from
IsBootPartition(dp, boot) == CompareDevicePaths(dp, boot) = 0

\* line 322: SameDevice
SameDeviceOf(bootDisk, parent) == CompareDevicePaths(bootDisk, parent) = 0

\* lines 326-331: the handle is skipped as not being on the boot disk
SkipOtherDevice(dbg, same) == ~dbg /\ ~same

\* a variant of line 351 that sets another status
NoTargetAborted == "Aborted"

\* line 351: the status set when the loop ended without a target
NoTargetStatus == "NotFound"

\* lines 314-331 for Handles[Index], which turns out to be the handle h; lines
\* 350-354 once the loop has ended
SelectHandle ==
  /\ pc = "select"
  /\ IF Index >= HandleCount
     THEN /\ Exit(NoTargetStatus, << "Could not locate target partition" >>, mem)
          /\ UNCHANGED << disk, Index, examined >>
     ELSE \E h \in Partitions :
          LET dp == DevicePathFromHandle(h)
              m1 == Borrow(mem, "DevicePath")
              m2 == SafeFree(Alloc(m1, "ParentDevicePath"), "ParentDevicePath")
              same == SameDeviceOf(BootDiskPath, GetParentDevice(dp))
          IN  /\ disk' = Append(disk, h)
              /\ IF IsBootPartition(dp, BootPartitionPath)
                 THEN /\ Goto("select", Status, m1)
                      /\ examined' = Append(examined, "boot")
                      /\ Index' = Index + 1
                 ELSE IF SkipOtherDevice(debug, same)
                 THEN /\ Goto("select", Status, m2)
                      /\ examined' = Append(examined, "otherDevice")
                      /\ Index' = Index + 1
                 ELSE /\ Goto("openBlockIo", Status, m2)
                      /\ UNCHANGED << examined, Index >>
  /\ UNCHANGED << debug, listSt, ImageCodeType, testSt, unloadSt, SecureBootStatus, dbd,
                  BootPartitionPath, BootDiskPath, HandleCount, FsType, un, Try, openSt,
                  image, WindowsBootMgr, calls, loadSt >>

\* lines 333-339: OpenProtocol(Handles[Index], BlockIo), AllocatePool(BlockSize)
OpenBlockIo ==
  /\ pc = "openBlockIo"
  /\ \E st \in { "Success", "Unsupported" }, pool \in BOOLEAN :
       /\ EFI_ERROR(st) => pool
       /\ IF EFI_ERROR(st) \/ ~pool
          THEN /\ Goto("select", st, mem)
               /\ examined' = Append(examined, "notRead")
               /\ Index' = Index + 1
          ELSE /\ Goto("readBlocks", st, Alloc(mem, "Buffer"))
               /\ UNCHANGED << examined, Index >>
  /\ UNCHANGED << debug, listSt, ImageCodeType, testSt, unloadSt, disk,
                  SecureBootStatus, dbd, BootPartitionPath, BootDiskPath, HandleCount,
                  FsType, un, Try, openSt, image, WindowsBootMgr, calls, loadSt >>

\* a variant of line 346 that also takes the end of the table as a match
MatchedOrEnd(t) == t <= Len(FsName)

\* line 344: a failed read makes the loop go on with the next handle
ReadFailed(st) == EFI_ERROR(st)

\* line 346: the signature scan stopped inside the table
Matched(t) == t < NumFs

\* lines 340-347: ReadBlocks of block 0, the signature scan, FreePool(Buffer);
\* after a failed read the buffer holds whatever it held: junk
ReadBlocks ==
  /\ pc = "readBlocks"
  /\ \E st \in { "Success", "DeviceError" }, junk \in Blocks :
       LET buf == IF EFI_ERROR(st) THEN junk ELSE disk[Index + 1].block
           t == Classify(buf)
           m == Dead(FreePool(mem, "Buffer"), { "Buffer" })
       IN  /\ ~EFI_ERROR(st) => junk = NtfsBlock
           /\ FsType' = t
           /\ IF ReadFailed(st)
              THEN /\ Goto("select", st, m)
                   /\ examined' = Append(examined, "notRead")
                   /\ Index' = Index + 1
              ELSE IF Matched(t)
              THEN /\ Goto("found", st, m)
                   /\ examined' = Append(examined, "match")
                   /\ Index' = Index
              ELSE /\ Goto("select", st, m)
                   /\ examined' = Append(examined, "unknown")
                   /\ Index' = Index + 1
  /\ UNCHANGED << debug, listSt, ImageCodeType, testSt, unloadSt, disk,
                  SecureBootStatus, dbd, BootPartitionPath, BootDiskPath, HandleCount,
                  un, Try, openSt, image, WindowsBootMgr, calls, loadSt >>

-----------------------------------------------------------------------------
(* efi_main, lines 355-382, and UnloadDriver, lines 151-187 *)

\* a variant of line 374 that takes every partition as serviced
ServicedAlways(st) == st = st

\* line 374: a file system driver already services the partition
Serviced(st) == st = "Success"

\* a variant of line 377 with the comparison inverted
UnloadFailed(st) == st # "Success"

\* line 377: UnloadDriver returned EFI_SUCCESS
UnloadSucceeded(st) == st = "Success"

\* lines 355-369: the target is printed; OpenProtocol(Handles[Index],
\* SimpleFileSystem, TEST_PROTOCOL)
TestFileSystem ==
  /\ pc = "found"
  /\ \E st \in { "Success", "Unsupported", "AccessDenied" } :
       LET m == AllocThenSafeFree(mem, "DevicePathString")
       IN  /\ calls' = Append(calls, "TestProtocol")
           /\ testSt' = st
           /\ IF st # "Success" /\ st # "Unsupported"
              THEN Exit(st, << "Could not check for service" >>, m)
              ELSE Goto(IF Serviced(st) THEN "unloadInfo" ELSE "driverPath", st, m)
  /\ UNCHANGED << debug, listSt, ImageCodeType, unloadSt, disk, SecureBootStatus, dbd,
                  BootPartitionPath, BootDiskPath, HandleCount, Index, FsType, examined,
                  un, Try, openSt, image, WindowsBootMgr, loadSt >>

\* lines 375-382 once UnloadDriver has returned st: Success flags the partition
\* as needing service, anything else leaves it as serviced
AfterUnload(st, m) ==
  IF UnloadSucceeded(st)
  THEN Goto("driverPath", "Unsupported", Dead(m, { "UnloadDriver.OpenInfo" }))
  ELSE Goto("volumeInit", Status, Dead(m, { "UnloadDriver.OpenInfo" }))

\* UnloadDriver, lines 162-164: OpenProtocolInformation(FileSystemHandle, DiskIo)
UnloadOpenInfo ==
  /\ pc = "unloadInfo"
  /\ \E st \in { "Success", "Unsupported" }, n \in 0..MaxOpeners :
       /\ EFI_ERROR(st) => n = 0
       /\ IF EFI_ERROR(st)
          THEN /\ AfterUnload("NotFound", mem)
               /\ un' = un
          ELSE /\ Goto("unloadOpener", Status, Alloc(mem, "UnloadDriver.OpenInfo"))
               /\ un' = [i |-> 0, OpenInfoCount |-> n, log |-> << >>]
  /\ UNCHANGED << debug, listSt, ImageCodeType, testSt, unloadSt, disk,
                  SecureBootStatus, dbd, BootPartitionPath, BootDiskPath, HandleCount,
                  Index, FsType, examined, Try, openSt, image, WindowsBootMgr, calls,
                  loadSt >>

\* a variant of line 179 that goes on to the next opener whatever the status
UnloadContinuesAlways(st) == st = st

\* lines 179-182: a failed UnloadImage makes the loop go on with the next opener
UnloadContinues(st) == EFI_ERROR(st)

\* UnloadDriver, lines 168-186: one entry of the open-information list (binding:
\* its driver binding opens; st: what UnloadImage returns), or the end of the
\* list; un.log keeps what happened to each entry walked so far
UnloadOpener ==
  /\ pc = "unloadOpener"
  /\ IF un.i >= un.OpenInfoCount
     THEN /\ AfterUnload("NotFound", mem)
          /\ un' = UnInit
          /\ calls' = calls
          /\ unloadSt' = unloadSt
     ELSE \E binding \in BOOLEAN, st \in { "Success", "Unsupported" } :
            /\ ~binding => st = "Success"
            /\ IF ~binding
               THEN /\ Goto("unloadOpener", Status, mem)
                    /\ un' = [un EXCEPT !.i = @ + 1, !.log = Append(@, "noBinding")]
                    /\ calls' = calls
                    /\ unloadSt' = unloadSt
               ELSE IF UnloadContinues(st)
               THEN /\ Goto("unloadOpener", Status, mem)
                    /\ un' = [un EXCEPT !.i = @ + 1, !.log = Append(@, "notUnloaded")]
                    /\ calls' = Append(calls, "UnloadImage")
                    /\ unloadSt' = st
               ELSE /\ AfterUnload("Success", mem)
                    /\ un' = UnInit
                    /\ calls' = Append(calls, "UnloadImage")
                    /\ unloadSt' = st
  /\ UNCHANGED << debug, listSt, ImageCodeType, testSt, disk, SecureBootStatus, dbd,
                  BootPartitionPath, BootDiskPath, HandleCount, Index, FsType, examined,
                  Try, openSt, image, WindowsBootMgr, loadSt >>

-----------------------------------------------------------------------------
(* efi_main, lines 383-440: the companion driver *)

\* a variant of lines 402-403 and 506-507 that rewrites the status in every
\* secure-boot state but Disabled
LoadFailureStatusUnlessDisabled(st, sb) ==
  IF st = "AccessDenied" /\ sb # 0 THEN "SecurityViolation" ELSE st

\* lines 402-403 and 506-507: the status reported when LoadImage failed with st
LoadFailureStatus(st, sb) ==
  IF st = "AccessDenied" /\ sb >= 1 THEN "SecurityViolation" ELSE st

\* lines 386-392: FileDevicePath(LoadedImage->DeviceHandle, DriverPath)
DriverPath ==
  /\ pc = "driverPath"
  /\ calls' = Append(calls, "FileDevicePath.driver")
  /\ \E ok \in BOOLEAN :
       IF ~ok
       THEN Exit("DeviceError", << "Unable to set path" >>,
                 [mem EXCEPT !.ptr["DevicePath"] = "NULL"])
       ELSE Goto("driverLoad", Status, Alloc(mem, "DevicePath"))
  /\ UNCHANGED << debug, listSt, ImageCodeType, testSt, unloadSt, disk,
                  SecureBootStatus, dbd, BootPartitionPath, BootDiskPath, HandleCount,
                  Index, FsType, examined, un, Try, openSt, image, WindowsBootMgr,
                  loadSt >>

\* lines 397-406: LoadImage of the driver, SafeFree(DevicePath)
DriverLoad ==
  /\ pc = "driverLoad"
  /\ \E st \in { "Success", "NotFound", "AccessDenied" } :
       /\ calls' = Append(calls, "LoadImage.driver")
       /\ loadSt' = st
       /\ IF EFI_ERROR(st)
          THEN Exit(LoadFailureStatus(st, SecureBootStatus),
                    << "Unable to load driver" >>, SafeFree(mem, "DevicePath"))
          ELSE Goto("driverType", st, SafeFree(mem, "DevicePath"))
  /\ UNCHANGED << debug, listSt, ImageCodeType, testSt, unloadSt, disk,
                  SecureBootStatus, dbd, BootPartitionPath, BootDiskPath, HandleCount,
                  Index, FsType, examined, un, Try, openSt, image, WindowsBootMgr >>

\* the image code types a loaded driver image may declare
ImageCodeTypes ==
  { "EfiLoaderCode", "EfiBootServicesCode", "EfiRuntimeServicesCode" }

\* a variant of line 417 that also takes a runtime driver
IsBootOrRuntimeDriver(type) ==
  type \in { "EfiBootServicesCode", "EfiRuntimeServicesCode" }

\* line 417: the image is a Boot System Driver
IsBootSystemDriver(type) == type = "EfiBootServicesCode"

\* lines 411-421: OpenProtocol(ImageHandle, LoadedImage) and the image type
DriverType ==
  /\ pc = "driverType"
  /\ calls' = Append(calls, "LoadedImage.driver")
  /\ \E st \in { "Success", "Unsupported" }, type \in ImageCodeTypes :
       /\ EFI_ERROR(st) => type = "EfiBootServicesCode"
       /\ ImageCodeType' = IF EFI_ERROR(st) THEN "none" ELSE type
       /\ IF EFI_ERROR(st)
          THEN Exit(st, << "Unable to access driver interface" >>, mem)
          ELSE IF ~IsBootSystemDriver(type)
          THEN Exit("LoadError", << "Not a Boot System Driver" >>, mem)
          ELSE Goto("driverStart", st, mem)
  /\ UNCHANGED << debug, listSt, testSt, unloadSt, disk, SecureBootStatus, dbd,
                  BootPartitionPath, BootDiskPath, HandleCount, Index, FsType, examined,
                  un, Try, openSt, image, WindowsBootMgr, loadSt >>

\* lines 424-428: StartImage of the driver
DriverStart ==
  /\ pc = "driverStart"
  /\ calls' = Append(calls, "StartImage.driver")
  /\ \E st \in { "Success", "DeviceError" } :
       IF EFI_ERROR(st)
       THEN Exit(st, << "Unable to start driver" >>, mem)
       ELSE Goto("driverConnect", st, mem)
  /\ UNCHANGED << debug, listSt, ImageCodeType, testSt, unloadSt, disk,
                  SecureBootStatus, dbd, BootPartitionPath, BootDiskPath, HandleCount,
                  Index, FsType, examined, un, Try, openSt, image, WindowsBootMgr,
                  loadSt >>

\* lines 433-439: ConnectController(Handles[Index], DriverHandleList)
DriverConnect ==
  /\ pc = "driverConnect"
  /\ calls' = Append(calls, "ConnectController")
  /\ \E st \in { "Success", "NotFound" } :
       IF EFI_ERROR(st)
       THEN Exit(st, << "Could not start partition service" >>, mem)
       ELSE Goto("volumeInit", st, mem)
  /\ UNCHANGED << debug, listSt, ImageCodeType, testSt, unloadSt, disk,
                  SecureBootStatus, dbd, BootPartitionPath, BootDiskPath, HandleCount,
                  Index, FsType, examined, un, Try, openSt, image, WindowsBootMgr,
                  loadSt >>

-----------------------------------------------------------------------------
(* efi_main, lines 444-491: volume open with retry, root, label, path case *)

\* the number of retries after the first open attempt
NUM_RETRIES == 1

\* lines 444-449: the loader path is formatted and the retry loop entered
VolumeInit ==
  /\ pc = "volumeInit"
  /\ Try' = 0
  /\ pc' = "volumeOpen"
  /\ UNCHANGED << debug, listSt, ImageCodeType, testSt, unloadSt, disk, Status,
                  SecureBootStatus, mem, dbd, BootPartitionPath, BootDiskPath,
                  HandleCount, Index, FsType, examined, un, openSt, image,
                  WindowsBootMgr, calls, loadSt, diag, keyWait, returned >>

\* a variant of line 455 that allows one more retry
RetriesExceeded(try) == try > NUM_RETRIES

\* a variant of line 456 that ends the run with NotFound
OpenFailureNotFound(st) == "NotFound"

\* line 455: no retry is left
RetriesExhausted(try) == try >= NUM_RETRIES

\* line 456: the status the run ends with when the last attempt failed with st
OpenFailureStatus(st) == st

\* lines 450-456: one open attempt on the target handle
VolumeOpen ==
  /\ pc = "volumeOpen"
  /\ calls' = Append(calls, "OpenVolume")
  /\ \E st \in { "Success", "Unsupported", "AccessDenied" } :
       /\ openSt' = st
       /\ IF ~EFI_ERROR(st)
          THEN Goto("root", st, mem)
          ELSE IF RetriesExhausted(Try)
          THEN Exit(OpenFailureStatus(st), << "Could not open partition" >>, mem)
          ELSE /\ Status' = st
               /\ diag' = Append(diag, "Could not open partition")
               /\ pc' = "stall"
               /\ UNCHANGED << mem, keyWait, returned >>
  /\ UNCHANGED << debug, listSt, ImageCodeType, testSt, unloadSt, disk,
                  SecureBootStatus, dbd, BootPartitionPath, BootDiskPath, HandleCount,
                  Index, FsType, examined, un, Try, image, WindowsBootMgr, loadSt >>

\* lines 457-458 and the loop's Try++: the delay before the next attempt
VolumeStall ==
  /\ pc = "stall"
  /\ calls' = Append(calls, "Stall")
  /\ Try' = Try + 1
  /\ pc' = "volumeOpen"
  /\ UNCHANGED << debug, listSt, ImageCodeType, testSt, unloadSt, disk, Status,
                  SecureBootStatus, mem, dbd, BootPartitionPath, BootDiskPath,
                  HandleCount, Index, FsType, examined, un, openSt, image,
                  WindowsBootMgr, loadSt, diag, keyWait, returned >>

\* lines 462-467: Volume->OpenVolume(Volume, &Root); root: Root is not NULL
OpenRoot ==
  /\ pc = "root"
  /\ calls' = Append(calls, "OpenRoot")
  /\ \E st \in { "Success", "DeviceError" }, root \in BOOLEAN :
       /\ EFI_ERROR(st) => ~root
       /\ IF EFI_ERROR(st) \/ ~root
          THEN Exit(st, << "Could not open Root directory" >>, mem)
          ELSE Goto("label", st, mem)
  /\ UNCHANGED << debug, listSt, ImageCodeType, testSt, unloadSt, disk,
                  SecureBootStatus, dbd, BootPartitionPath, BootDiskPath, HandleCount,
                  Index, FsType, examined, un, Try, openSt, image, WindowsBootMgr,
                  loadSt >>

\* lines 470-483: the volume label; pool: AllocateZeroPool succeeded; st1, st2:
\* what the first and the repeated GetInfo return; fits: Size <= FILE_INFO_SIZE
VolumeLabel ==
  /\ pc = "label"
  /\ calls' = Append(calls, "VolumeLabel")
  /\ \E pool \in BOOLEAN, st1 \in { "Success", "BufferTooSmall", "Unsupported" },
        fits \in BOOLEAN, st2 \in { "Success", "BufferTooSmall" } :
       /\ ~pool => (st1 = "Success" /\ fits /\ st2 = "Success")
       /\ st1 # "BufferTooSmall" => (fits /\ st2 = "Success")
       /\ ~fits => st2 = "Success"
       /\ Goto("pathCase",
               IF ~pool THEN Status
               ELSE IF st1 = "BufferTooSmall" /\ fits THEN st2
               ELSE st1,
               Dead(IF pool THEN FreePool(Alloc(mem, "VolumeInfo"), "VolumeInfo")
                    ELSE mem, { "VolumeInfo" }))
  /\ UNCHANGED << debug, listSt, ImageCodeType, testSt, unloadSt, disk,
                  SecureBootStatus, dbd, BootPartitionPath, BootDiskPath, HandleCount,
                  Index, FsType, examined, un, Try, openSt, image, WindowsBootMgr,
                  loadSt >>

\* a variant of line 487 that keeps an error left in Status by the label read
StatusUnlessError(prev, st) == IF EFI_ERROR(prev) THEN prev ELSE st

\* line 487: Status, holding prev, is assigned what SetPathCase returned
StatusAfterPathCase(prev, st) == st

\* lines 487-491: SetPathCase(Root, LoaderPath)
PathCase ==
  /\ pc = "pathCase"
  /\ calls' = Append(calls, "SetPathCase")
  /\ \E st \in { "Success", "NotFound" } :
       LET now == StatusAfterPathCase(Status, st)
       IN  IF EFI_ERROR(now)
           THEN Exit(now, << "Could not locate loader" >>, mem)
           ELSE Goto("loaderPath", now, mem)
  /\ UNCHANGED << debug, listSt, ImageCodeType, testSt, unloadSt, disk,
                  SecureBootStatus, dbd, BootPartitionPath, BootDiskPath, HandleCount,
                  Index, FsType, examined, un, Try, openSt, image, WindowsBootMgr,
                  loadSt >>

-----------------------------------------------------------------------------
(* efi_main, lines 497-540: the next-stage image *)

\* BootMgrName once its first letter is set: "bootmgr.dll" and the NUL
BootMgrName == << 98, 111, 111, 116, 109, 103, 114, 46, 100, 108, 108, 0 >>

\* sizeof(BootMgrName)
BootMgrNameSize == Len(BootMgrName)

\* the first offset the scan looks at
ScanStart == 64

\* a loaded image: its ImageSize, the offset at which the text "bootmgr.dll"
\* lies in it (-1: nowhere) and the byte that follows the text; the other
\* bytes are filler
ImageByte(img, off) ==
  IF img.marker >= 0 /\ off >= img.marker /\ off < img.marker + BootMgrNameSize - 1
  THEN BootMgrName[off - img.marker + 1]
  ELSE IF img.marker >= 0 /\ off = img.marker + BootMgrNameSize - 1 THEN img.term
  ELSE 144

\* the images LoadImage may have loaded
Images ==
  { [size |-> 96, marker |-> -1, term |-> 0],
    [size |-> 96, marker |-> 64, term |-> 0],
    [size |-> 96, marker |-> 72, term |-> 0],
    [size |-> 96, marker |-> 16, term |-> 0],
    [size |-> 96, marker |-> 84, term |-> 0],
    [size |-> 96, marker |-> 70, term |-> 46],
    [size |-> 70, marker |-> -1, term |-> 0],
    [size |-> 8, marker |-> -1, term |-> 0] }

\* UINTN subtraction
UintnSub(a, b) == (a - b) % (2 ^ UintnBits)

\* CompareMem(ImageBase + idx, BootMgrName, sizeof(BootMgrName)) from byte k on:
\* "equal", "differ", or "outside" when a byte beyond the image is read
RECURSIVE CompareAt(_, _, _)
CompareAt(img, idx, k) ==
  IF k > BootMgrNameSize THEN "equal"
  ELSE IF idx + k - 1 >= img.size THEN "outside"
  ELSE IF ImageByte(img, idx + k - 1) # BootMgrName[k] THEN "differ"
  ELSE CompareAt(img, idx, k + 1)

\* for (Index = 0x40; Index < ImageSize - sizeof(BootMgrName); Index++): "found",
\* "absent", or "outside" when the scan leaves the image.  The scan's Index is
\* idx; the model's Index keeps naming the target handle, which the code does
\* not use any more after the scan
RECURSIVE ScanImage(_, _)
ScanImage(img, idx) ==
  IF idx >= UintnSub(img.size, BootMgrNameSize) THEN "absent"
  ELSE LET c == CompareAt(img, idx, 1)
       IN  IF c = "equal" THEN "found"
           ELSE IF c = "outside" THEN "outside"
           ELSE ScanImage(img, idx + 1)

\* lines 497-502: FileDevicePath(Handles[Index], LoaderPath)
LoaderPath ==
  /\ pc = "loaderPath"
  /\ calls' = Append(calls, "FileDevicePath.loader")
  /\ \E ok \in BOOLEAN :
       IF ~ok
       THEN Exit("DeviceError", << "Could not create path" >>,
                 [mem EXCEPT !.ptr["DevicePath"] = "NULL"])
       ELSE Goto("loaderLoad", Status, Alloc(mem, "DevicePath"))
  /\ UNCHANGED << debug, listSt, ImageCodeType, testSt, unloadSt, disk,
                  SecureBootStatus, dbd, BootPartitionPath, BootDiskPath, HandleCount,
                  Index, FsType, examined, un, Try, openSt, image, WindowsBootMgr,
                  loadSt >>

\* lines 503-510: LoadImage of the next-stage image, SafeFree(DevicePath)
LoaderLoad ==
  /\ pc = "loaderLoad"
  /\ \E st \in { "Success", "NotFound", "AccessDenied" } :
       /\ calls' = Append(calls, "LoadImage.loader")
       /\ loadSt' = st
       /\ IF EFI_ERROR(st)
          THEN Exit(LoadFailureStatus(st, SecureBootStatus), << "Load failure" >>,
                    SafeFree(mem, "DevicePath"))
          ELSE Goto("loaderInspect", st, SafeFree(mem, "DevicePath"))
  /\ UNCHANGED << debug, listSt, ImageCodeType, testSt, unloadSt, disk,
                  SecureBootStatus, dbd, BootPartitionPath, BootDiskPath, HandleCount,
                  Index, FsType, examined, un, Try, openSt, image, WindowsBootMgr >>

\* lines 513-525: OpenProtocol(ImageHandle, LoadedImage) and the marker scan.  A
\* scan that leaves the image reads whatever memory follows it: it may find the
\* marker there, run to its end without finding it, or fault
LoaderInspect ==
  /\ pc = "loaderInspect"
  /\ calls' = Append(calls, "LoadedImage.loader")
  /\ \E st \in { "Success", "Unsupported" }, img \in Images,
        beyond \in { "found", "absent", "fault" } :
       LET scan == ScanImage(img, ScanStart)
       IN  /\ EFI_ERROR(st) => img.size = 8
           /\ (EFI_ERROR(st) \/ scan # "outside") => beyond = "absent"
           /\ Status' = st
           /\ image' = IF EFI_ERROR(st) THEN NoImage ELSE img
           /\ WindowsBootMgr' = /\ ~EFI_ERROR(st)
                                /\ \/ scan = "found"
                                   \/ scan = "outside" /\ beyond = "found"
           /\ pc' = IF ~EFI_ERROR(st) /\ scan = "outside" /\ beyond = "fault"
                    THEN "fault"
                    ELSE "loaderStart"
  /\ UNCHANGED << debug, listSt, ImageCodeType, testSt, unloadSt, disk,
                  SecureBootStatus, mem, dbd, BootPartitionPath, BootDiskPath,
                  HandleCount, Index, FsType, examined, un, Try, openSt, loadSt, diag,
                  keyWait, returned >>

\* line 536
BootMgrFailure == "Windows bootmgr encountered a security validation or internal error"

\* line 538
StartFailure == "Start failure"

\* a variant of line 534 that needs only one of its two conditions
StartDiagnosticEither(st, bootmgr) ==
  IF st = "NoMapping" \/ bootmgr THEN BootMgrFailure ELSE StartFailure

\* lines 534-538: the diagnostic printed when StartImage failed with st
StartDiagnostic(st, bootmgr) ==
  IF st = "NoMapping" /\ bootmgr THEN BootMgrFailure ELSE StartFailure

\* lines 527-556: StartImage of the next-stage image, its diagnostic, and out
LoaderStart ==
  /\ pc = "loaderStart"
  /\ calls' = Append(calls, "StartImage.loader")
  /\ \E st \in { "Success", "NoMapping", "LoadError" } :
       Exit(st,
            IF EFI_ERROR(st) THEN << StartDiagnostic(st, WindowsBootMgr) >> ELSE << >>,
            mem)
  /\ image' = NoImage
  /\ UNCHANGED << debug, listSt, ImageCodeType, testSt, unloadSt, disk,
                  SecureBootStatus, dbd, BootPartitionPath, BootDiskPath, HandleCount,
                  Index, FsType, examined, un, Try, openSt, WindowsBootMgr, loadSt >>

-----------------------------------------------------------------------------

Next ==
  \/ ReadSecureBoot
  \/ OpenLoadedImage
  \/ DbdLocate
  \/ DbdHandle
  \/ DbdOpener
  \/ BootPaths
  \/ LocateHandles
  \/ SelectHandle
  \/ OpenBlockIo
  \/ ReadBlocks
  \/ TestFileSystem
  \/ UnloadOpenInfo
  \/ UnloadOpener
  \/ DriverPath
  \/ DriverLoad
  \/ DriverType
  \/ DriverStart
  \/ DriverConnect
  \/ VolumeInit
  \/ VolumeOpen
  \/ VolumeStall
  \/ OpenRoot
  \/ VolumeLabel
  \/ PathCase
  \/ LoaderPath
  \/ LoaderLoad
  \/ LoaderInspect
  \/ LoaderStart

Spec == Init /\ [][Next]_vars

-----------------------------------------------------------------------------
(* Vocabulary of the properties *)

\* the selection loop has chosen a target: the handle it examined last
TargetChosen == examined # << >> /\ examined[Len(examined)] = "match"

\* the handle chosen as target
Target == disk[Len(examined)]

\* the signature a block 0 carries, read off its bytes at offsets 3..10
SignatureOf(block) ==
  IF [i \in 1..8 |-> block[3 + i]] = << 78, 84, 70, 83, 32, 32, 32, 32 >> THEN "NTFS"
  ELSE IF [i \in 1..8 |-> block[3 + i]] = << 69, 88, 70, 65, 84, 32, 32, 32 >> THEN "exFAT"
  ELSE "Unknown"

\* the path with its last node removed
ParentOf(path) == SubSeq(path, 1, Len(path) - 1)

\* the handle is a partition of the disk the loader booted from
OnBootDisk(h) == ParentOf(h.path) = ParentOf(BootDevicePath)

\* positions of the selection loop
SelectionSteps == { "select", "openBlockIo", "readBlocks" }

\* positions before the selection loop
BeforeSelection ==
  { "start", "openLoadedImage", "dbdLocate", "dbdHandle", "dbdOpener", "bootPaths",
    "locate" }

\* the run got as far as enumerating the disk handles for the selection
Enumerated ==
  /\ pc \notin BeforeSelection
  /\ \A i \in 1..Len(diag) :
       diag[i] \notin { "Unable to access boot image interface", "Failed to list disks" }

\* the operations on drivers and images
DriverOps ==
  { "UnloadImage", "LoadImage.driver", "LoadImage.loader", "StartImage.driver",
    "StartImage.loader", "ConnectController" }

NoDriverOps == \A i \in 1..Len(calls) : calls[i] \notin DriverOps

LastCall == IF calls = << >> THEN "none" ELSE calls[Len(calls)]

IsVolumeCall(c) == c \in { "OpenVolume", "Stall" }

\* the open attempts and delays of the retry loop, in order
VolumeCalls == SelectSeq(calls, IsVolumeCall)

IsOpenAttempt(c) == c = "OpenVolume"

IsDelay(c) == c = "Stall"

Attempts == Len(SelectSeq(calls, IsOpenAttempt))

Delays == Len(SelectSeq(calls, IsDelay))

-----------------------------------------------------------------------------
(* Properties *)

\* C1: the handle chosen as target partition never has a device path equal,
\* node by node, to the device path of the boot partition, whatever handles are
\* enumerated and whatever the platform calls return.
C1_TargetIsNotBootPartition == TargetChosen => Target.path # BootDevicePath

\* a target was chosen after the boot partition, itself carrying an NTFS
\* signature, had been passed over
C1_Witness ==
  /\ TargetChosen
  /\ \E i \in 1..(Len(examined) - 1) :
       disk[i].path = BootDevicePath /\ SignatureOf(disk[i].block) = "NTFS"

\* C2: in a release build the handle chosen as target has the same parent
\* device path as the boot partition; a partition of another disk is never
\* chosen, NTFS or exFAT signature or not.
C2_ReleaseTargetOnBootDisk == (~debug /\ TargetChosen) => OnBootDisk(Target)

\* a release build chose its target after passing over a partition of another
\* disk that carries an NTFS signature
C2_Witness ==
  /\ ~debug
  /\ TargetChosen
  /\ \E i \in 1..(Len(examined) - 1) :
       ~OnBootDisk(disk[i]) /\ SignatureOf(disk[i].block) = "NTFS"

\* what the loop recorded of the i-th handle is what that handle is: a handle
\* passed over is the boot partition, or is on another disk (release build),
\* or was not read, or carries no known signature; the handle recorded as the
\* match is none of these
TruthfulAt(i) ==
  LET h == disk[i]
  IN  CASE examined[i] = "boot" -> h.path = BootDevicePath
        [] examined[i] = "otherDevice" ->
             ~debug /\ h.path # BootDevicePath /\ ~OnBootDisk(h)
        [] examined[i] = "notRead" ->
             h.path # BootDevicePath /\ (debug \/ OnBootDisk(h))
        [] examined[i] = "unknown" ->
             /\ h.path # BootDevicePath
             /\ debug \/ OnBootDisk(h)
             /\ SignatureOf(h.block) = "Unknown"
        [] examined[i] = "match" ->
             /\ h.path # BootDevicePath
             /\ debug \/ OnBootDisk(h)
             /\ SignatureOf(h.block) # "Unknown"
             /\ i = Len(examined)
        [] OTHER -> FALSE

\* C3: the target is the first handle in enumeration order that is not the
\* boot partition, is on the boot disk (release build), was read successfully
\* and carries an NTFS or exFAT signature; no handle after it is examined; and
\* when the loop ends without such a handle the run ends with NotFound.
C3_FirstQualifyingHandle ==
  /\ Len(examined) <= Len(disk) /\ Len(disk) <= Len(examined) + 1
  /\ Len(disk) <= HandleCount
  /\ \A i \in 1..Len(examined) : TruthfulAt(i)
  /\ TargetChosen =>
       /\ Len(disk) = Len(examined)
       /\ Index + 1 = Len(examined)
       /\ pc \notin SelectionSteps
       /\ pc = "found" => (~EFI_ERROR(Status) /\ FsName[FsType + 1] = SignatureOf(Target.block))
  /\ (pc \notin BeforeSelection /\ pc \notin SelectionSteps /\ Enumerated) =>
       \/ TargetChosen
       \/ /\ pc = "done"
          /\ returned = "NotFound"
          /\ Len(examined) = HandleCount
          /\ NoDriverOps

\* the first handle was chosen and the run went on to its end although the
\* platform had enumerated a second handle
C3_Witness ==
  /\ TargetChosen
  /\ Len(examined) = 1
  /\ HandleCount = 2
  /\ pc = "done"

\* C4: the class of a partition depends only on the 8 bytes at offsets 3..10 of
\* its block 0: "NTFS" and four spaces is NTFS, "EXFAT" and three spaces is
\* exFAT, anything else is Unknown; a partition whose block read failed is not
\* chosen, whatever the buffer holds, and the loop goes on with the next handle.
C4_ClassificationByWindow ==
  /\ pc = "readBlocks" =>
       \A b \in Blocks :
         Classify(b) = CASE SignatureOf(b) = "NTFS" -> 0
                         [] SignatureOf(b) = "exFAT" -> 1
                         [] OTHER -> 2
  /\ \A i \in 1..Len(examined) :
       /\ examined[i] = "match" => SignatureOf(disk[i].block) \in { "NTFS", "exFAT" }
       /\ examined[i] = "unknown" => SignatureOf(disk[i].block) = "Unknown"
  /\ pc = "found" => FsName[FsType + 1] = SignatureOf(Target.block)
  /\ (pc \in { "select", "openBlockIo", "found" } /\ Status = "DeviceError") =>
       /\ pc # "found"
       /\ ~TargetChosen
       /\ \E i \in 1..Len(examined) : examined[i] = "notRead"
       /\ returned = "none"

\* a block read failed on the first handle while the buffer looked like NTFS;
\* the handle was passed over and the loop is about to take the second handle
C4_Witness ==
  /\ pc = "select"
  /\ Status = "DeviceError"
  /\ FsType = 0
  /\ SignatureOf(disk[1].block) = "Unknown"
  /\ Index = 1
  /\ HandleCount = 2

\* no enumerated partition of the boot disk carries an NTFS or exFAT signature
NoBootDiskMatch ==
  \A i \in 1..Len(disk) : OnBootDisk(disk[i]) => SignatureOf(disk[i].block) = "Unknown"

\* C5 as stated: when no partition of the boot disk matches either signature
\* the run returns NotFound and attempts no driver operation.
C5_AsStated ==
  (NoBootDiskMatch /\ Enumerated /\ Len(disk) = HandleCount) =>
    (NoDriverOps /\ (pc = "done" => returned = "NotFound"))

\* C5: in a release build, once the disk handles have been enumerated, a run
\* on which no partition of the boot disk matches either signature returns
\* NotFound, and it attempts no UnloadImage, LoadImage, StartImage or
\* ConnectController at any point.
C5_ReleaseNoMatch ==
  (~debug /\ NoBootDiskMatch) =>
    (NoDriverOps /\ ((pc = "done" /\ Enumerated) => returned = "NotFound"))

\* a release build returned NotFound after two handles, one of them an NTFS
\* partition of another disk
C5_Witness ==
  /\ ~debug
  /\ pc = "done"
  /\ returned = "NotFound"
  /\ Len(disk) = 2
  /\ NoBootDiskMatch
  /\ \E i \in 1..Len(disk) : SignatureOf(disk[i].block) = "NTFS"

\* the shape of the retry loop so far
RetryShape ==
  /\ Attempts <= NUM_RETRIES + 1
  /\ \A i \in 1..Len(VolumeCalls) :
       VolumeCalls[i] = IF i % 2 = 1 THEN "OpenVolume" ELSE "Stall"
  /\ (pc # "volumeOpen" /\ Attempts > 0) => Delays = Attempts - 1
  /\ (pc = "done" /\ EFI_ERROR(openSt)) =>
       (Attempts = NUM_RETRIES + 1 /\ Delays = Attempts - 1)
  /\ openSt = "Success" => pc \notin { "volumeOpen", "stall" }

\* a step taken once an attempt has succeeded
AfterSuccess == openSt = "Success" => VolumeCalls' = VolumeCalls

\* C6: the retry loop makes at most NUM_RETRIES+1 open attempts, delays only
\* between two consecutive attempts (delays = attempts - 1 on exhaustion), and
\* makes no open attempt and no delay after the first attempt that succeeds.
C6_RetryLoop == [] RetryShape /\ [][AfterSuccess]_vars

\* every attempt failed: NUM_RETRIES+1 attempts, NUM_RETRIES delays
C6_Witness ==
  /\ pc = "done"
  /\ EFI_ERROR(openSt)
  /\ Attempts = NUM_RETRIES + 1
  /\ Delays = NUM_RETRIES

\* C7 as stated: when every open attempt fails the run ends with NotFound,
\* whatever status the failing attempts returned.
C7_AsStated == (pc = "done" /\ EFI_ERROR(openSt)) => returned = "NotFound"

\* C7: when every open attempt fails the run ends with the status the last
\* failed attempt returned.
C7_ExhaustedReturnsLastStatus ==
  (pc = "done" /\ EFI_ERROR(openSt)) => (returned = openSt /\ LastCall = "OpenVolume")

\* every attempt failed, the last with Unsupported, and the run returned that
C7_Witness ==
  /\ pc = "done"
  /\ openSt = "Unsupported"
  /\ returned = "Unsupported"
  /\ Attempts = NUM_RETRIES + 1

\* C8: when efi_main returns, every owned device path and pool buffer of the
\* run has been released exactly once and no borrowed device path was released.
C8_AllReleasedOnce == pc = "done" => (mem.live = {} /\ mem.fault = {})

\* the run ended because a load failed with AccessDenied
LoadDenied ==
  /\ pc = "done"
  /\ loadSt = "AccessDenied"
  /\ LastCall \in { "LoadImage.driver", "LoadImage.loader" }

\* C9 as stated: a load that fails with AccessDenied while secure boot is
\* Enabled or in Setup mode makes the run return SecurityViolation; with secure
\* boot Disabled it returns AccessDenied.
C9_AsStated ==
  LoadDenied =>
    returned = IF SecureBootStatus # 0 THEN "SecurityViolation" ELSE "AccessDenied"

\* C9: a load (companion driver or next-stage image) that fails with
\* AccessDenied makes the run return SecurityViolation when secure boot is
\* Enabled, and AccessDenied when it is Disabled or in Setup mode.
C9_EnabledOnly ==
  LoadDenied =>
    returned = IF SecureBootStatus > 0 THEN "SecurityViolation" ELSE "AccessDenied"

\* Scenario D: the companion driver failed to load with AccessDenied while
\* secure boot was Enabled, and the run returned SecurityViolation
C9_Witness ==
  /\ LoadDenied
  /\ LastCall = "LoadImage.driver"
  /\ SecureBootStatus = 1
  /\ returned = "SecurityViolation"

Printed(msg) == \E i \in 1..Len(diag) : diag[i] = msg

\* C10: when StartImage of the next-stage image fails, the descriptive
\* diagnostic is printed, and the generic one is not, if the marker was found
\* and the status is NoMapping; otherwise the generic diagnostic is printed and
\* the descriptive one is not.
C10_StartDiagnostics ==
  (pc = "done" /\ LastCall = "StartImage.loader" /\ EFI_ERROR(returned)) =>
    IF WindowsBootMgr /\ returned = "NoMapping"
    THEN /\ Printed("Windows bootmgr encountered a security validation or internal error")
         /\ ~Printed("Start failure")
    ELSE /\ Printed("Start failure")
         /\ ~Printed("Windows bootmgr encountered a security validation or internal error")

\* Scenario E: the marker was found and StartImage returned NoMapping
C10_Witness ==
  /\ pc = "done"
  /\ LastCall = "StartImage.loader"
  /\ WindowsBootMgr
  /\ returned = "NoMapping"
  /\ Printed("Windows bootmgr encountered a security validation or internal error")

\* position of the first occurrence of the call c in the run (0: none)
FirstCall(c) ==
  IF \E i \in 1..Len(calls) : calls[i] = c
  THEN CHOOSE i \in 1..Len(calls) : calls[i] = c /\ \A j \in 1..(i - 1) : calls[j] # c
  ELSE 0

Called(c) == FirstCall(c) > 0

\* C11: the companion driver is started or connected only after its image was
\* loaded successfully and declared the boot-services code type; an image of
\* any other type ends the run with LoadError, with no StartImage and no
\* ConnectController for it.
C11_DriverStartedOnlyIfBootDriver ==
  /\ (Called("StartImage.driver") \/ Called("ConnectController")) =>
       /\ ImageCodeType = "EfiBootServicesCode"
       /\ 0 < FirstCall("LoadImage.driver")
       /\ FirstCall("LoadImage.driver") < FirstCall("LoadedImage.driver")
       /\ FirstCall("LoadedImage.driver") < FirstCall("StartImage.driver")
  /\ pc \in { "driverType", "driverStart", "driverConnect" } => loadSt = "Success"
  /\ (LastCall = "LoadImage.driver" /\ EFI_ERROR(loadSt)) => pc = "done"
  /\ ImageCodeType \notin { "none", "EfiBootServicesCode" } =>
       /\ pc = "done"
       /\ returned = "LoadError"
       /\ LastCall = "LoadedImage.driver"
       /\ ~Called("StartImage.driver")
       /\ ~Called("ConnectController")

\* the driver image was loaded, declared itself a runtime driver, and the run
\* ended with LoadError
C11_Witness ==
  /\ ImageCodeType = "EfiRuntimeServicesCode"
  /\ loadSt = "Success"
  /\ returned = "LoadError"

IsPrefix(a, b) == Len(a) <= Len(b) /\ SubSeq(b, 1, Len(a)) = a

IsUnload(c) == c = "UnloadImage"

\* the UnloadImage calls made so far
Unloads == Len(SelectSeq(calls, IsUnload))

\* what the driver and the volume stages call when nothing fails, in order
ServiceCalls ==
  << "FileDevicePath.driver", "LoadImage.driver", "LoadedImage.driver",
     "StartImage.driver", "ConnectController", "OpenVolume", "OpenRoot", "VolumeLabel",
     "SetPathCase", "FileDevicePath.loader", "LoadImage.loader", "LoadedImage.loader",
     "StartImage.loader" >>

\* Scenario A so far: the boot partition came first, the NTFS target came
\* second and exposes a file system whose driver was unloaded at the first
\* attempt, and no failure has been reported
ScenarioA ==
  /\ examined = << "boot", "match" >>
  /\ SignatureOf(Target.block) = "NTFS"
  /\ testSt = "Success"
  /\ unloadSt = "Success"
  /\ Unloads = 1
  /\ diag = << >>

\* C12: in Scenario A with every platform call succeeding the run unloads the
\* bound driver, loads the ntfs driver, checks its type, starts it, connects
\* it to the target, opens the volume, loads and starts the next stage, in
\* this order, and returns Success.
C12_ScenarioA ==
  ScenarioA =>
    /\ IsPrefix(calls, << "TestProtocol", "UnloadImage" >> \o ServiceCalls)
    /\ DriverName[FsType + 1] = "ntfs"
    /\ pc = "done" =>
         /\ calls = << "TestProtocol", "UnloadImage" >> \o ServiceCalls
         /\ returned = "Success"

\* Scenario A ran to its end on a platform with exactly the two handles
C12_Witness ==
  /\ ScenarioA
  /\ pc = "done"
  /\ HandleCount = 2
  /\ returned = "Success"
  /\ LastCall = "StartImage.loader"

\* Scenario B so far: the exFAT target exposes no file system and no failure
\* has been reported
ScenarioB ==
  /\ TargetChosen
  /\ SignatureOf(Target.block) = "exFAT"
  /\ testSt = "Unsupported"
  /\ diag = << >>

\* C13: UnloadImage is called only when the file system test on the target
\* succeeded; in Scenario B, with the test reporting Unsupported, no unload is
\* made, the exfat driver is loaded and started directly, and with every
\* platform call succeeding the run returns Success.
C13_ScenarioB ==
  /\ (Unloads > 0 \/ pc \in { "unloadInfo", "unloadOpener" }) => testSt = "Success"
  /\ ScenarioB =>
       /\ Unloads = 0
       /\ IsPrefix(calls, << "TestProtocol" >> \o ServiceCalls)
       /\ DriverName[FsType + 1] = "exfat"
       /\ pc = "done" =>
            /\ calls = << "TestProtocol" >> \o ServiceCalls
            /\ returned = "Success"

\* Scenario B ran to its end
C13_Witness ==
  /\ ScenarioB
  /\ pc = "done"
  /\ returned = "Success"
  /\ LastCall = "StartImage.loader"

\* the statuses the specification lists for the return value
StatusVocabulary ==
  { "Success", "NotFound", "AccessDenied", "SecurityViolation", "DeviceError",
    "LoadError", "Unsupported" }

LastDiag == IF diag = << >> THEN "none" ELSE diag[Len(diag)]

\* the diagnostics of the stages that end the run with the status the failing
\* call returned
PassedThrough ==
  { "Unable to access boot image interface", "Failed to list disks",
    "Unable to access driver interface", "Unable to start driver",
    "Could not start partition service", "Could not open Root directory",
    "Could not locate loader", "Start failure",
    "Windows bootmgr encountered a security validation or internal error" }

\* C14 as stated: the status efi_main returns is always one of Success,
\* NotFound, AccessDenied, SecurityViolation, DeviceError, LoadError, Unsupported.
C14_AsStated == pc = "done" => returned \in StatusVocabulary

\* C14: the status efi_main returns is Success, or a status the program sets
\* itself (NotFound without a target, DeviceError when a file path cannot be
\* built, LoadError for a driver of the wrong type, SecurityViolation for a
\* load denied under Enabled secure boot), or the error status of the failing
\* platform call or of the started image, unchanged.
C14_ReturnedStatus ==
  pc = "done" =>
    \/ returned = "Success"
    \/ LastDiag = "Could not locate target partition" /\ returned = "NotFound"
    \/ LastDiag \in { "Unable to set path", "Could not create path" }
         /\ returned = "DeviceError"
    \/ LastDiag = "Not a Boot System Driver" /\ returned = "LoadError"
    \/ LastDiag \in { "Unable to load driver", "Load failure" }
         /\ EFI_ERROR(loadSt)
         /\ returned = IF loadSt = "AccessDenied" /\ SecureBootStatus > 0
                       THEN "SecurityViolation"
                       ELSE loadSt
    \/ LastDiag = "Could not open partition" /\ EFI_ERROR(openSt) /\ returned = openSt
    \/ LastDiag = "Could not check for service" /\ EFI_ERROR(testSt) /\ returned = testSt
    \/ LastDiag \in PassedThrough /\ EFI_ERROR(returned)

\* the enumeration failed with OutOfResources and the run returned it
C14_Witness ==
  /\ pc = "done"
  /\ returned = "OutOfResources"
  /\ LastDiag = "Failed to list disks"

\* the call at which a stage fails, by the diagnostic the stage prints; "none"
\* for the stages before the first call on the target
FailingCall(msg) ==
  CASE msg = "Could not check for service" -> "TestProtocol"
    [] msg = "Unable to set path" -> "FileDevicePath.driver"
    [] msg = "Unable to load driver" -> "LoadImage.driver"
    [] msg \in { "Unable to access driver interface", "Not a Boot System Driver" } ->
         "LoadedImage.driver"
    [] msg = "Unable to start driver" -> "StartImage.driver"
    [] msg = "Could not start partition service" -> "ConnectController"
    [] msg = "Could not open partition" -> "OpenVolume"
    [] msg = "Could not open Root directory" -> "OpenRoot"
    [] msg = "Could not locate loader" -> "SetPathCase"
    [] msg = "Could not create path" -> "FileDevicePath.loader"
    [] msg = "Load failure" -> "LoadImage.loader"
    [] msg \in { "Start failure",
                 "Windows bootmgr encountered a security validation or internal error" } ->
         "StartImage.loader"
    [] OTHER -> "none"

\* the stages in pipeline order, by their calls
StageRank(c) ==
  CASE c = "TestProtocol" -> 1
    [] c = "UnloadImage" -> 2
    [] c = "FileDevicePath.driver" -> 3
    [] c = "LoadImage.driver" -> 4
    [] c = "LoadedImage.driver" -> 5
    [] c = "StartImage.driver" -> 6
    [] c = "ConnectController" -> 7
    [] c \in { "OpenVolume", "Stall" } -> 8
    [] c = "OpenRoot" -> 9
    [] c = "VolumeLabel" -> 10
    [] c = "SetPathCase" -> 11
    [] c = "FileDevicePath.loader" -> 12
    [] c = "LoadImage.loader" -> 13
    [] c = "LoadedImage.loader" -> 14
    [] c = "StartImage.loader" -> 15
    [] OTHER -> 0

\* C15: after the first unrecovered failure of a stage nothing of a later
\* stage is called and control goes to cleanup; a failed disconnect of the
\* pre-pass, a failed block read and a failed volume-label read do not end the
\* run and are never the status returned.
C15_FailFast ==
  /\ \A i \in 1..(Len(calls) - 1) : StageRank(calls[i]) <= StageRank(calls[i + 1])
  /\ (pc = "done" /\ diag # << >>
        /\ (EFI_ERROR(returned) \/ LastDiag # "Could not open partition")) =>
       LastCall = FailingCall(LastDiag)
  /\ (pc = "done" /\ EFI_ERROR(returned)) => diag # << >>
  /\ (pc # "done" /\ diag # << >>) =>
       /\ \A i \in 1..Len(diag) : diag[i] = "Could not open partition"
       /\ Len(diag) = Delays + (IF pc = "stall" THEN 1 ELSE 0)
  /\ pc \in { "dbdLocate", "dbdHandle", "dbdOpener" } =>
       (Status = "Success" /\ returned = "none" /\ diag = << >>)
  /\ dbd.disconnect = "failed" => (pc = "dbdOpener" /\ returned = "none")
  /\ pc = "pathCase" => returned = "none"
  /\ pc = "loaderPath" => ~EFI_ERROR(Status)
  /\ returned # "BufferTooSmall"
  /\ LastDiag = "Could not locate target partition" => returned = "NotFound"

\* a handle could not be read, the next one became the target, and the run
\* ended at the first stage that failed, the start of the driver
C15_Witness ==
  /\ pc = "done"
  /\ examined = << "notRead", "match" >>
  /\ LastDiag = "Unable to start driver"
  /\ LastCall = "StartImage.driver"
  /\ returned = "DeviceError"

\* the enumeration of the disk handles failed, or succeeded with no handle
NoHandles ==
  /\ pc = "done"
  /\ listSt # "none"
  /\ EFI_ERROR(listSt) \/ HandleCount = 0

\* C16 as stated: when the enumeration of the disk handles fails or yields no
\* handle the run ends with NotFound, whatever the enumeration returned.
C16_AsStated == NoHandles => returned = "NotFound"

\* C16: when the enumeration of the disk handles fails the run ends with the
\* status the enumeration returned; when it succeeds with no handle the run
\* ends with NotFound.
C16_EnumerationFailure ==
  NoHandles =>
    /\ returned = IF EFI_ERROR(listSt) THEN listSt ELSE "NotFound"
    /\ LastDiag = IF EFI_ERROR(listSt) THEN "Failed to list disks"
                  ELSE "Could not locate target partition"
    /\ calls = << >>
    /\ examined = << >>

\* the enumeration failed with OutOfResources, which the run returned
C16_Witness ==
  /\ NoHandles
  /\ listSt = "OutOfResources"
  /\ returned = "OutOfResources"

\* C17: efi_main waits for a key exactly when the status it returns is an
\* error: on every failure, that of the started next-stage image included, and
\* never when it returns Success; there is no wait before the end of the run.
C17_KeyWaitOnError ==
  /\ pc # "done" => (~keyWait /\ returned = "none")
  /\ pc = "done" => (keyWait <=> returned # "Success")
  /\ pc = "done" => (returned = "Success" \/ returned \in ErrorStatuses)

\* the started next-stage image returned an error and the key wait was entered
C17_Witness ==
  /\ pc = "done"
  /\ keyWait
  /\ LastCall = "StartImage.loader"
  /\ returned = "LoadError"

\* the calls of the companion driver stage
DriverStageCalls ==
  { "FileDevicePath.driver", "LoadImage.driver", "LoadedImage.driver",
    "StartImage.driver", "ConnectController" }

IsNotUnloaded(e) == e = "notUnloaded"

\* the shape of the walk over the openers, and what follows it
UnloadWalk ==
  /\ pc = "unloadOpener" =>
       /\ un.i <= un.OpenInfoCount
       /\ Len(un.log) = un.i
       /\ \A k \in 1..Len(un.log) : un.log[k] \in { "noBinding", "notUnloaded" }
       /\ Unloads = Len(SelectSeq(un.log, IsNotUnloaded))
       /\ unloadSt # "Success"
       /\ LastCall = IF Unloads = 0 THEN "TestProtocol" ELSE "UnloadImage"
  /\ unloadSt = "Success" =>
       /\ pc \notin { "unloadInfo", "unloadOpener" }
       /\ Len(calls) > Unloads + 1 => calls[Unloads + 2] = "FileDevicePath.driver"
  /\ (testSt = "Success" /\ unloadSt # "Success") =>
       /\ \A k \in 1..Len(calls) : calls[k] \notin DriverStageCalls
       /\ Len(calls) > Unloads + 1 => calls[Unloads + 2] = "OpenVolume"
       /\ pc \in { "unloadInfo", "unloadOpener", "volumeInit", "volumeOpen" }
            \/ Called("OpenVolume")

\* a step taken once an unload has succeeded
AfterUnloaded == unloadSt = "Success" => (Unloads' = Unloads /\ unloadSt' = unloadSt)

PrePass == { "dbdLocate", "dbdHandle", "dbdOpener" }

\* what holds of the pre-pass in every state
PrePassShape ==
  /\ pc \in PrePass =>
       /\ Status = "Success"
       /\ returned = "none"
       /\ listSt = "none"
       /\ disk = << >>
       /\ examined = << >>
       /\ calls = << >>
  /\ pc \notin PrePass => dbd = DbdInit
  /\ dbd.disconnect # "none" =>
       /\ pc = "dbdOpener"
       /\ dbd.logical
       /\ ~dbd.hasFs
       /\ dbd.byDriver
       /\ dbd.OpenInfoIndex <= dbd.OpenInfoCount
       /\ dbd.Index < dbd.HandleCount

\* what holds of every step of the pre-pass: it is entered from the open of
\* the boot image interface only, leaves the run status alone, leaves an
\* open-information list at its end only, and returns after the last handle only
PrePassStep ==
  /\ (pc \notin PrePass /\ pc' \in PrePass) => pc = "openLoadedImage"
  /\ pc \in PrePass => Status' = Status
  /\ (pc = "dbdOpener" /\ pc' # "dbdOpener") =>
       (pc' = "dbdHandle" /\ dbd.OpenInfoIndex >= dbd.OpenInfoCount
          /\ dbd'.Index = dbd.Index + 1)
  /\ (pc \in PrePass /\ pc' \notin PrePass) =>
       /\ pc' = "bootPaths"
       /\ pc = "dbdLocate" \/ (pc = "dbdHandle" /\ dbd.Index >= dbd.HandleCount)

Marker == << 98, 111, 111, 116, 109, 103, 114, 46, 100, 108, 108 >>

\* the marker lies in the image at offset off
MarkerAt(img, off) ==
  \A k \in 1..Len(Marker) :
    off + k - 1 < img.size /\ ImageByte(img, off + k - 1) = Marker[k]

\* the marker occurs in the image at some offset >= 0x40
MarkerOccurs(img) == \E off \in 64..(img.size - Len(Marker)) : MarkerAt(img, off)

\* the image was inspected and is large enough for the scan to stay inside it
Inspected ==
  /\ pc = "loaderStart"
  /\ image # NoImage
  /\ image.size >= 64 + Len(Marker) + 1

\* C20: the next-stage image is classified as the boot manager exactly when
\* the marker "bootmgr.dll" occurs in its loaded image at some offset >= 0x40,
\* the last bytes of the image included; an occurrence below 0x40 only does
\* not classify it.
C20_MarkerScan == Inspected => (WindowsBootMgr <=> MarkerOccurs(image))

\* the next-stage image was loaded, started, and returned Success
NextStageSucceeded ==
  /\ Called("LoadImage.loader")
  /\ loadSt = "Success"
  /\ LastCall = "StartImage.loader"

\* C21: efi_main returns Success only if the next-stage image was loaded from
\* the target partition, started, and itself returned Success; a root open
\* that reports success without a root directory does not end the run with
\* Success.
C21_SuccessOnlyAfterStart ==
  (pc = "done" /\ returned = "Success") =>
    (NextStageSucceeded /\ ~Printed("Could not open Root directory"))

\* C22: whatever the size of the loaded image, sizes below 12 and below 0x40
\* included, every byte the marker scan compares lies inside the image and the
\* scan ends after at most ImageSize iterations.
C22_ScanInsideImage ==
  (pc \in { "loaderStart", "fault" } /\ image # NoImage) =>
    /\ ScanImage(image, ScanStart) # "outside"
    /\ UintnSub(image.size, BootMgrNameSize) <= image.size
    /\ pc # "fault"

====
